---------------------------- MODULE Spec2Model ----------------------------
(***************************************************************************)
(* Model of winscp_manager/scheduler.py: ScheduledTask, TaskScheduler and  *)
(* the threads that run on one TaskScheduler: the caller thread of the     *)
(* front-end (add_task, remove_task, start, stop, set_task_executor) and   *)
(* the loop threads that start() creates (_scheduler_loop).                *)
(*                                                                         *)
(* Python objects are modelled by reference: heap maps an object id to the *)
(* fields of a ScheduledTask, self.tasks holds references, and the list    *)
(* that a scan iterates holds references too.  A thread switch may happen  *)
(* between any two statements, and the code takes no lock anywhere: the    *)
(* test of line 192, the assignment of line 206, the executor call, the    *)
(* update after it, and the two halves of save_tasks are separate steps.   *)
(***************************************************************************)
EXTENDS Integers, Sequences, FiniteSets, TLC

\* ------------------------------------------------------------------ bounds
MaxTime == 1        \* the clock runs 0..MaxTime (one unit = one minute)
MaxObjs == 2        \* ScheduledTask objects alive at once
MaxCalls == 2       \* executor invocations counted per object
MaxStarts == 2      \* calls of start() that create a thread
MaxAdds == 2        \* calls of add_task
MaxRemoves == 1     \* calls of remove_task
MaxFails == 2       \* writes of the tasks file that fail

\* --------------------------------------------------------------- constants
None == -1          \* Python's None, where a datetime may stand
Null == <<>>        \* JSON null, where an ISO string may stand

TaskIds == {"t1", "t2"}
Oids == 1..MaxObjs
Threads == {"L1", "L2"}
Times == 0..MaxTime

\* class TaskType: member name -> value
TaskType == [UPLOAD |-> "upload", DOWNLOAD |-> "download", DELETE |-> "delete"]
TaskTypeNames == DOMAIN TaskType

\* class TaskStatus: member name -> value
TaskStatus == [PENDING |-> "pending", RUNNING |-> "running",
               COMPLETED |-> "completed", FAILED |-> "failed",
               CANCELLED |-> "cancelled"]
TaskStatusNames == DOMAIN TaskStatus

\* Enum lookup by value, TaskStatus(value) / TaskType(value)
EnumByValue(enum, v) == CHOOSE n \in DOMAIN enum : enum[n] = v

\* datetime.isoformat(): a string that determines the datetime
isoformat(t) == <<"iso", t>>
\* datetime.fromisoformat() of such a string
fromisoformat(s) == s[2]

\* ScheduledTask.__init__
NewTask(task_id, task_type, source_path, dest_path, scheduled_time, recurring, interval_minutes) ==
    [task_id |-> task_id, task_type |-> task_type,
     source_path |-> source_path, dest_path |-> dest_path,
     scheduled_time |-> scheduled_time, recurring |-> recurring,
     interval_minutes |-> interval_minutes,
     status |-> "PENDING", last_run |-> None,
     next_run |-> scheduled_time, error_message |-> ""]

\* Mutant of to_dict: next_run is left out
to_dict_without_next_run(task) ==
    [task_id |-> task.task_id,
     task_type |-> TaskType[task.task_type],
     source_path |-> task.source_path,
     dest_path |-> task.dest_path,
     scheduled_time |-> isoformat(task.scheduled_time),
     recurring |-> task.recurring,
     interval_minutes |-> task.interval_minutes,
     status |-> TaskStatus[task.status],
     last_run |-> IF task.last_run # None THEN isoformat(task.last_run) ELSE Null,
     next_run |-> Null,
     error_message |-> task.error_message]

\* ScheduledTask.to_dict
to_dict(task) ==
    [task_id |-> task.task_id,
     task_type |-> TaskType[task.task_type],
     source_path |-> task.source_path,
     dest_path |-> task.dest_path,
     scheduled_time |-> isoformat(task.scheduled_time),
     recurring |-> task.recurring,
     interval_minutes |-> task.interval_minutes,
     status |-> TaskStatus[task.status],
     last_run |-> IF task.last_run # None THEN isoformat(task.last_run) ELSE Null,
     next_run |-> IF task.next_run # None THEN isoformat(task.next_run) ELSE Null,
     error_message |-> task.error_message]

\* ScheduledTask.from_dict, for a record that holds every key
from_dict(data) ==
    [NewTask(data.task_id, EnumByValue(TaskType, data.task_type),
             data.source_path, data.dest_path,
             fromisoformat(data.scheduled_time),
             data.recurring, data.interval_minutes)
       EXCEPT !.status = EnumByValue(TaskStatus, data.status),
              !.last_run = IF data.last_run # Null
                           THEN fromisoformat(data.last_run) ELSE None,
              !.next_run = IF data.next_run # Null
                           THEN fromisoformat(data.next_run) ELSE None,
              !.error_message = data.error_message]

\* The keys of a record that to_dict wrote
DictKeys ==
    {"task_id", "task_type", "source_path", "dest_path", "scheduled_time",
     "recurring", "interval_minutes", "status", "last_run", "next_run",
     "error_message"}

\* from_dict raises: a key is missing (KeyError at data['task_id'] and the
\* like), or TaskType(...) or TaskStatus(...) gets a value the enum does not
\* have (ValueError).  The records here carry every key or lack some.
from_dict_raises(data) ==
    \/ ~(DictKeys \subseteq DOMAIN data)
    \/ data.task_type \notin {TaskType[n] : n \in TaskTypeNames}
    \/ data.status \notin {TaskStatus[n] : n \in TaskStatusNames}

\* ------------------------------------------------------------------- state
VARIABLES
    now,               \* the wall clock, datetime.now()
    heap,              \* object id -> fields of that ScheduledTask
    tasks,             \* self.tasks: the references it holds, in dict order
    file,              \* self.tasks_file: whether it exists, the JSON list in it
    running,           \* self.running
    scheduler_thread,  \* self.scheduler_thread
    task_executor,     \* self.task_executor is set
    thr,               \* the loop threads: position and locals of each
    caller,            \* the caller thread: position, operation, result
    calls,             \* executor invocations so far, per object
    ops                \* calls still to be made: add_task, remove_task, start,
                       \* constructions of a new TaskScheduler on the file,
                       \* and writes of the file that fail

vars == <<now, heap, tasks, file, running, scheduler_thread, task_executor,
          thr, caller, calls, ops>>

\* os.path.exists(self.tasks_file) is False
Absent == [exists |-> FALSE, json |-> FALSE, data |-> <<>>]

\* The file after json.dump(tasks_data, f) went through: json.load gives data
Written(data) == [exists |-> TRUE, json |-> TRUE, data |-> data]

\* The file after open(..., 'w') emptied it and json.dump did not finish:
\* json.load raises on it
Torn == [exists |-> TRUE, json |-> FALSE, data |-> <<>>]

\* How lines 240-241 end: they go through, open raises, or json.dump raises
\* (failures as long as the run has some left)
WriteOutcomes(o) ==
    {"ok"} \cup (IF o.fail > 0 THEN {"open", "dump"} ELSE {})

\* Mutant of FileAfter: a write that goes through leaves the file as it was
FileAfterKeeps(f, data, out) ==
    IF out = "dump" THEN Torn ELSE f

\* The file after lines 240-241 ended with out
FileAfter(f, data, out) ==
    IF out = "ok" THEN Written(data)
    ELSE IF out = "dump" THEN Torn
    ELSE f

\* An object id that holds no ScheduledTask
FreeObj == NewTask("", "UPLOAD", "", "", 0, FALSE, 0)

\* A thread that does not run, and the locals of one that starts
\* (now: line 189; todo: what is left of the list of line 191, the task in
\* hand first; res: what the executor did, line 211; data: tasks_data)
DeadThread == [pc |-> "dead", now |-> 0, todo |-> <<>>, res |-> "",
               data |-> <<>>]

\* The caller thread between two calls.  In a call, op and arg are the call;
\* at pc = "ret" the call has returned ret and the caller has yet to go on;
\* log is what the call gave to self.logger.
IdleCaller == [pc |-> "idle", op |-> "none", arg |-> "", ret |-> "None",
               data |-> <<>>, log |-> <<>>]

RECURSIVE SeqToSet(_)
SeqToSet(s) == IF s = <<>> THEN {} ELSE {Head(s)} \cup SeqToSet(Tail(s))

\* The objects some reference reaches: self.tasks and the lists being scanned
Referenced(tk, th) ==
    SeqToSet(tk) \cup UNION {SeqToSet(th[L].todo) : L \in Threads}

\* Reference counting: an object nothing refers to is freed
Collect(h, tk, th) ==
    [o \in Oids |-> IF o \in Referenced(tk, th) THEN h[o] ELSE FreeObj]

CollectCalls(c, tk, th) ==
    [o \in Oids |-> IF o \in Referenced(tk, th) THEN c[o] ELSE 0]

\* Position of task_id among the keys of self.tasks, 0 when it is no key
RECURSIVE KeyIndex(_, _, _)
KeyIndex(h, tk, task_id) ==
    IF tk = <<>> THEN 0
    ELSE IF h[tk[Len(tk)]].task_id = task_id THEN Len(tk)
    ELSE KeyIndex(h, SubSeq(tk, 1, Len(tk) - 1), task_id)

\* task_id in self.tasks
HasKey(h, tk, task_id) == KeyIndex(h, tk, task_id) # 0

\* self.tasks.get(task_id): the object, or None
DictGet(h, tk, task_id) ==
    IF HasKey(h, tk, task_id) THEN tk[KeyIndex(h, tk, task_id)] ELSE None

\* get_task(task_id)
get_task(task_id) == DictGet(heap, tasks, task_id)

\* Mutant of DictSet: the task is stored beside the one of the same id
DictSetBeside(h, tk, o) == Append(tk, o)

\* self.tasks[task.task_id] = task: a present key keeps its place
DictSet(h, tk, o) ==
    IF HasKey(h, tk, h[o].task_id)
    THEN [tk EXCEPT ![KeyIndex(h, tk, h[o].task_id)] = o]
    ELSE Append(tk, o)

\* Mutant of DictDel: the key stays
DictDelKeeps(h, tk, task_id) == tk

\* del self.tasks[task_id]
DictDel(h, tk, task_id) ==
    LET i == KeyIndex(h, tk, task_id)
    IN SubSeq(tk, 1, i - 1) \o SubSeq(tk, i + 1, Len(tk))

\* save_tasks, line 239: [task.to_dict() for task in self.tasks.values()]
tasks_data(h, tk) == [i \in 1..Len(tk) |-> to_dict(h[tk[i]])]

\* load_tasks, lines 253-255: the objects built, in the order of the file
\* (one per task_id: a later record replaces).  When from_dict raises, the
\* except clause of line 258 ends the loop: what was loaded stays.
RECURSIVE LoadInto(_, _, _)
LoadInto(h, tk, data) ==
    IF data = <<>> \/ from_dict_raises(Head(data)) THEN <<h, tk>>
    ELSE LET t == from_dict(Head(data))
             i == KeyIndex(h, tk, t.task_id)
             o == IF i # 0 THEN tk[i]
                  ELSE CHOOSE x \in Oids : x \notin SeqToSet(tk)
                         /\ \A y \in Oids \ SeqToSet(tk) : x <= y
         IN LoadInto([h EXCEPT ![o] = t],
                     IF i # 0 THEN tk ELSE Append(tk, o), Tail(data))

load_tasks(f) ==
    IF ~f.exists \/ ~f.json THEN <<[o \in Oids |-> FreeObj], <<>>>>
    ELSE LoadInto([o \in Oids |-> FreeObj], <<>>, f.data)

\* ------------------------------------------------------------ inputs
\* What the caller passes to ScheduledTask(...): the fields the scheduler
\* reads (recurring, interval_minutes, scheduled_time) vary; task_type,
\* source_path and dest_path are only carried and written out.  A task is
\* scheduled for now (due at once) or for later, and it either does not
\* recur (interval_minutes = 0, as the front-ends pass it) or recurs every
\* minute.
Kinds == {<<FALSE, 0>>, <<TRUE, 1>>}

\* The ids add_task is called with: one that is a key already, or the first
\* that is none (the ids are interchangeable: the code only compares them)
AddIds ==
    {id \in TaskIds : HasKey(heap, tasks, id)} \cup
    (IF ~HasKey(heap, tasks, "t1") THEN {"t1"}
     ELSE IF ~HasKey(heap, tasks, "t2") THEN {"t2"} ELSE {})

NewTasks ==
    {NewTask(a[1], "UPLOAD", "a.txt", "/a.txt", a[2], a[3][1], a[3][2]) :
        a \in AddIds \X {now, now + 1} \X Kinds}

\* What the executor does with a task: return True, return False, or raise
\* an exception e with str(e) the message
Outcomes == {<<"true", "">>, <<"false", "">>, <<"raise", "boom">>}

\* The calls a run makes at most.  A run is one of three kinds: it adds
\* MaxAdds tasks, or it adds and removes, or it starts MaxStarts threads.
Budgets ==
    {[add |-> MaxAdds, remove |-> 0, start |-> 1, boot |-> 0, fail |-> 0],
     [add |-> 1, remove |-> MaxRemoves, start |-> 1, boot |-> 0, fail |-> 0],
     [add |-> 1, remove |-> 0, start |-> MaxStarts, boot |-> 0, fail |-> 0]}

\* ---------------------------------------------------------------- Init
\* TaskScheduler.__init__ with no tasks file yet
Constructed ==
    /\ now = 0
    /\ heap = load_tasks(Absent)[1]
    /\ tasks = load_tasks(Absent)[2]
    /\ file = Absent
    /\ running = FALSE
    /\ scheduler_thread = "None"
    /\ task_executor = FALSE
    /\ thr = [L \in Threads |-> DeadThread]
    /\ caller = IdleCaller
    /\ calls = [o \in Oids |-> 0]

Init == Constructed /\ ops \in Budgets

\* Time passes
Tick ==
    /\ now < MaxTime
    /\ now' = now + 1
    /\ UNCHANGED <<heap, tasks, file, running, scheduler_thread,
                   task_executor, thr, caller, calls, ops>>

\* ------------------------------------------------------- caller thread
\* set_task_executor(executor)
SetTaskExecutor ==
    /\ caller.pc = "idle"
    /\ ~task_executor
    /\ task_executor' = TRUE
    /\ UNCHANGED <<now, heap, tasks, file, running, scheduler_thread, thr,
                   caller, calls, ops>>

\* The objects still referenced once task_id is no key of self.tasks
KeptWithout(task_id) ==
    Referenced(IF HasKey(heap, tasks, task_id)
               THEN DictDel(heap, tasks, task_id) ELSE tasks, thr)

\* add_task(task), line 131: self.tasks[task.task_id] = task.  The object
\* that was stored under the key is released unless a loop thread has it.
AddTask ==
    /\ caller.pc = "idle"
    /\ ops.add > 0
    /\ ops' = [ops EXCEPT !.add = @ - 1]
    /\ \E t \in NewTasks, o \in Oids :
        /\ o \notin KeptWithout(t.task_id)
        /\ \A x \in Oids \ KeptWithout(t.task_id) : o <= x
        /\ LET h == [heap EXCEPT ![o] = t]
               tk == DictSet(h, tasks, o)
           IN /\ tasks' = tk
              /\ heap' = Collect(h, tk, thr)
              /\ calls' = CollectCalls([calls EXCEPT ![o] = 0], tk, thr)
        /\ caller' = [IdleCaller EXCEPT !.pc = "save", !.op = "add",
                                        !.arg = t.task_id]
    /\ UNCHANGED <<now, file, running, scheduler_thread, task_executor, thr>>

\* remove_task(task_id), lines 145-146 and 150
RemoveTask ==
    /\ caller.pc = "idle"
    /\ ops.remove > 0
    /\ ops' = [ops EXCEPT !.remove = @ - 1]
    /\ \E id \in TaskIds :
        IF HasKey(heap, tasks, id)
        THEN LET tk == DictDel(heap, tasks, id)
             IN /\ tasks' = tk
                /\ heap' = Collect(heap, tk, thr)
                /\ calls' = CollectCalls(calls, tk, thr)
                /\ caller' = [IdleCaller EXCEPT !.pc = "save",
                                 !.op = "remove", !.arg = id]
        ELSE /\ caller' = [IdleCaller EXCEPT !.pc = "ret", !.op = "remove",
                                             !.arg = id, !.ret = "False"]
             /\ UNCHANGED <<heap, tasks, calls>>
    /\ UNCHANGED <<now, file, running, scheduler_thread, task_executor, thr>>

\* Mutant of CallerSave: the store is locked while an executor is called
CallerSaveLocked ==
    /\ caller.pc = "save"
    /\ \A L \in Threads : thr[L].pc # "call"
    /\ caller' = [caller EXCEPT !.pc = "write",
                                !.data = tasks_data(heap, tasks)]
    /\ UNCHANGED <<now, heap, tasks, file, running, scheduler_thread,
                   task_executor, thr, calls, ops>>

\* save_tasks on the caller thread, line 239: the list of dicts is built
CallerSave ==
    /\ caller.pc = "save"
    /\ caller' = [caller EXCEPT !.pc = "write",
                                !.data = tasks_data(heap, tasks)]
    /\ UNCHANGED <<now, heap, tasks, file, running, scheduler_thread,
                   task_executor, thr, calls, ops>>

\* save_tasks on the caller thread, lines 240-241, and the return of
\* add_task (None) or remove_task (True)
CallerWrite ==
    /\ caller.pc = "write"
    /\ \E out \in WriteOutcomes(ops) :
        /\ file' = FileAfter(file, caller.data, out)
        /\ ops' = [ops EXCEPT !.fail = IF out = "ok" THEN @ ELSE @ - 1]
        /\ caller' = [caller EXCEPT !.pc = "ret", !.data = <<>>,
              !.ret = IF caller.op = "remove" THEN "True" ELSE "None",
              !.log = (IF out = "ok" THEN <<>>
                       ELSE <<"Failed to save tasks">>)
                      \o <<IF caller.op = "remove" THEN "Removed task"
                           ELSE "Added task">>]
    /\ UNCHANGED <<now, heap, tasks, running, scheduler_thread,
                   task_executor, thr, calls>>

\* The caller takes the result and goes on
CallerReturn ==
    /\ caller.pc = "ret"
    /\ caller' = IdleCaller
    /\ UNCHANGED <<now, heap, tasks, file, running, scheduler_thread,
                   task_executor, thr, calls, ops>>

\* Mutant of Start: self.running is not tested
StartAlways ==
    /\ caller.pc = "idle"
    /\ \E L \in Threads :
        /\ thr[L].pc = "dead"
        /\ L = CHOOSE K \in Threads : thr[K].pc = "dead"
        /\ ops.start > 0
        /\ running' = TRUE
        /\ ops' = [ops EXCEPT !.start = @ - 1]
        /\ thr' = [thr EXCEPT ![L].pc = "test"]
        /\ scheduler_thread' = L
        /\ caller' = [IdleCaller EXCEPT !.pc = "ret", !.op = "start",
                            !.log = <<"Scheduler started">>]
    /\ UNCHANGED <<now, heap, tasks, file, task_executor, calls>>

\* start(), lines 162-168
Start ==
    /\ caller.pc = "idle"
    /\ IF running
       THEN /\ caller' = [IdleCaller EXCEPT !.pc = "ret", !.op = "start",
                                !.log = <<"Scheduler already running">>]
            /\ UNCHANGED <<running, scheduler_thread, thr, ops>>
       ELSE \E L \in Threads :
            /\ thr[L].pc = "dead"
            /\ L = CHOOSE K \in Threads : thr[K].pc = "dead"
            /\ ops.start > 0
            /\ running' = TRUE
            /\ ops' = [ops EXCEPT !.start = @ - 1]
            /\ thr' = [thr EXCEPT ![L].pc = "test"]
            /\ scheduler_thread' = L
            /\ caller' = [IdleCaller EXCEPT !.pc = "ret", !.op = "start",
                                !.log = <<"Scheduler started">>]
    /\ UNCHANGED <<now, heap, tasks, file, task_executor, calls>>

\* stop(), lines 173-175: the flag is cleared, then join(timeout=5) begins
Stop ==
    /\ caller.pc = "idle"
    /\ running' = FALSE
    /\ caller' = [IdleCaller EXCEPT !.op = "stop",
                     !.pc = IF scheduler_thread # "None" THEN "join"
                            ELSE "ret",
                     !.log = IF scheduler_thread # "None" THEN <<>>
                             ELSE <<"Scheduler stopped">>]
    /\ UNCHANGED <<now, heap, tasks, file, scheduler_thread, task_executor,
                   thr, calls, ops>>

\* Where a loop thread can stay longer than the 5 seconds join waits:
\* inside time.sleep(10) and inside the executor
Blocking == {"sleep", "call"}

\* Mutant of JoinReturn: join() without a timeout
JoinWithoutTimeout ==
    /\ caller.pc = "join"
    /\ thr[scheduler_thread].pc = "dead"
    /\ caller' = [caller EXCEPT !.pc = "ret",
                                !.log = <<"Scheduler stopped">>]
    /\ UNCHANGED <<now, heap, tasks, file, running, scheduler_thread,
                   task_executor, thr, calls, ops>>

\* join(timeout=5) returns: the thread has ended, or the 5 seconds are over
JoinReturn ==
    /\ caller.pc = "join"
    /\ thr[scheduler_thread].pc \in {"dead"} \cup Blocking
    /\ caller' = [caller EXCEPT !.pc = "ret",
                                !.log = <<"Scheduler stopped">>]
    /\ UNCHANGED <<now, heap, tasks, file, running, scheduler_thread,
                   task_executor, thr, calls, ops>>

\* --------------------------------------------------------- loop threads
\* Mutant of Due: the status is not looked at
DueWhateverStatus(task, t) == task.next_run <= t

\* line 192: task.status == TaskStatus.PENDING and task.next_run <= now
Due(task, t) == task.status = "PENDING" /\ task.next_run <= t

\* line 192 raises TypeError: None <= datetime
DueRaises(task) == task.status = "PENDING" /\ task.next_run = None

\* The thread goes on to the next task of its list, or to time.sleep(10)
NextTask(th) ==
    [th EXCEPT !.todo = Tail(th.todo), !.data = <<>>, !.res = "",
               !.pc = IF Len(th.todo) > 1 THEN "check" ELSE "sleep"]

\* Mutant of LoopTest: the loop does not test self.running
LoopTestForever(L) ==
    /\ thr[L].pc = "test"
    /\ thr' = [thr EXCEPT ![L] =
                 [@ EXCEPT !.now = now, !.todo = tasks,
                     !.pc = IF tasks # <<>> THEN "check" ELSE "sleep"]]
    /\ UNCHANGED <<now, heap, tasks, file, running, scheduler_thread,
                   task_executor, caller, calls, ops>>

\* line 180: while self.running; then lines 189-191: now = datetime.now()
\* and list(self.tasks.values())
LoopTest(L) ==
    /\ thr[L].pc = "test"
    /\ thr' = [thr EXCEPT ![L] =
                 IF ~running THEN DeadThread
                 ELSE [@ EXCEPT !.now = now, !.todo = tasks,
                         !.pc = IF tasks # <<>> THEN "check" ELSE "sleep"]]
    /\ UNCHANGED <<now, heap, tasks, file, running, scheduler_thread,
                   task_executor, caller, calls, ops>>

\* Mutant of Check: the exception of the comparison ends the thread
CheckUncaught(L) ==
    /\ thr[L].pc = "check"
    /\ LET task == heap[Head(thr[L].todo)]
           th == IF DueRaises(task)
                 THEN [thr EXCEPT ![L] = DeadThread]
                 ELSE IF Due(task, thr[L].now)
                 THEN [thr EXCEPT ![L].pc = "exec"]
                 ELSE [thr EXCEPT ![L] = NextTask(thr[L])]
       IN /\ thr' = th
          /\ heap' = Collect(heap, tasks, th)
          /\ calls' = CollectCalls(calls, tasks, th)
    /\ UNCHANGED <<now, tasks, file, running, scheduler_thread,
                   task_executor, caller, ops>>

\* line 192 for the next task of the list: it is handed to _execute_task,
\* or passed over, or the comparison raises and the cycle ends (line 184)
Check(L) ==
    /\ thr[L].pc = "check"
    /\ LET task == heap[Head(thr[L].todo)]
           th == IF DueRaises(task)
                 THEN [thr EXCEPT ![L].pc = "test", ![L].todo = <<>>]
                 ELSE IF Due(task, thr[L].now)
                 THEN [thr EXCEPT ![L].pc = "exec"]
                 ELSE [thr EXCEPT ![L] = NextTask(thr[L])]
       IN /\ thr' = th
          /\ heap' = Collect(heap, tasks, th)
          /\ calls' = CollectCalls(calls, tasks, th)
    /\ UNCHANGED <<now, tasks, file, running, scheduler_thread,
                   task_executor, caller, ops>>

\* Mutant of ExecuteTask: the status is set before the executor is looked at
ExecuteTaskUnchecked(L) ==
    /\ thr[L].pc = "exec"
    /\ LET o == Head(thr[L].todo)
           th == IF task_executor THEN [thr EXCEPT ![L].pc = "call"]
                 ELSE [thr EXCEPT ![L] = NextTask(thr[L])]
           h == [heap EXCEPT ![o].status = "RUNNING"]
           c == IF task_executor
                THEN [calls EXCEPT ![o] = IF @ < MaxCalls THEN @ + 1 ELSE @]
                ELSE calls
       IN /\ thr' = th
          /\ heap' = Collect(h, tasks, th)
          /\ calls' = CollectCalls(c, tasks, th)
    /\ UNCHANGED <<now, tasks, file, running, scheduler_thread,
                   task_executor, caller, ops>>

\* _execute_task, lines 202-211: without an executor it returns; with one
\* the task becomes RUNNING and the executor is called
ExecuteTask(L) ==
    /\ thr[L].pc = "exec"
    /\ LET o == Head(thr[L].todo)
           th == IF task_executor THEN [thr EXCEPT ![L].pc = "call"]
                 ELSE [thr EXCEPT ![L] = NextTask(thr[L])]
           h == IF task_executor THEN [heap EXCEPT ![o].status = "RUNNING"]
                ELSE heap
           c == IF task_executor
                THEN [calls EXCEPT ![o] = IF @ < MaxCalls THEN @ + 1 ELSE @]
                ELSE calls
       IN /\ thr' = th
          /\ heap' = Collect(h, tasks, th)
          /\ calls' = CollectCalls(c, tasks, th)
    /\ UNCHANGED <<now, tasks, file, running, scheduler_thread,
                   task_executor, caller, ops>>

\* Mutant of Outcome: a failed task is armed again
OutcomeRetries(task, res, t) ==
    IF res[1] = "true"
    THEN [task EXCEPT !.status = "COMPLETED", !.last_run = t]
    ELSE [task EXCEPT !.status = "PENDING", !.error_message = res[2],
                      !.next_run = t + task.interval_minutes]

\* Mutant of Outcome: a False from the executor leaves no message
OutcomeNoDetail(task, res, t) ==
    IF res[1] = "true"
    THEN [task EXCEPT !.status = "COMPLETED", !.last_run = t]
    ELSE [task EXCEPT !.status = "FAILED", !.error_message = res[2]]

\* lines 213-215 and 224-232: what the executor's outcome does to the task
Outcome(task, res, t) ==
    IF res[1] = "true"
    THEN [task EXCEPT !.status = "COMPLETED", !.last_run = t]
    ELSE IF res[1] = "false"
    THEN [task EXCEPT !.status = "FAILED",
                      !.error_message = "Task execution failed"]
    ELSE [task EXCEPT !.status = "FAILED", !.error_message = res[2]]

\* line 218: if task.recurring and task.interval_minutes > 0
Rearms(task) == task.recurring /\ task.interval_minutes > 0

\* Mutant of ReturnWith: an exception of the executor is not caught in
\* _execute_task and ends the cycle at line 184
ReturnUncaught(L, outs) ==
    /\ thr[L].pc = "call"
    /\ \E res \in outs :
        LET o == Head(thr[L].todo)
            th == IF res[1] = "raise"
                  THEN [thr EXCEPT ![L].pc = "test", ![L].todo = <<>>,
                                   ![L].res = res[1]]
                  ELSE [thr EXCEPT ![L].res = res[1], ![L].pc =
                          IF res[1] = "true" /\ Rearms(heap[o])
                          THEN "rearm" ELSE "save"]
            h == IF res[1] = "raise" THEN heap
                 ELSE [heap EXCEPT ![o] = Outcome(heap[o], res, now)]
        IN /\ thr' = th
           /\ heap' = Collect(h, tasks, th)
           /\ calls' = CollectCalls(calls, tasks, th)
    /\ UNCHANGED <<now, tasks, file, running, scheduler_thread,
                   task_executor, caller, ops>>

\* The executor returns or raises, with an outcome of the set outs
ReturnWith(L, outs) ==
    /\ thr[L].pc = "call"
    /\ \E res \in outs :
        LET o == Head(thr[L].todo)
        IN /\ heap' = [heap EXCEPT ![o] = Outcome(heap[o], res, now)]
           /\ thr' = [thr EXCEPT ![L].res = res[1], ![L].pc =
                         IF res[1] = "true" /\ Rearms(heap[o])
                         THEN "rearm" ELSE "save"]
           /\ calls' = calls
    /\ UNCHANGED <<now, tasks, file, running, scheduler_thread,
                   task_executor, caller, ops>>

\* Mutant of Rearmed: the interval is counted from last_run
RearmedFromLastRun(task, t) ==
    [task EXCEPT !.next_run = task.last_run + task.interval_minutes,
                 !.status = "PENDING"]

\* lines 219-220: the second datetime.now(), and the task is Pending again
Rearmed(task, t) ==
    [task EXCEPT !.next_run = t + task.interval_minutes,
                 !.status = "PENDING"]

Rearm(L) ==
    /\ thr[L].pc = "rearm"
    /\ LET o == Head(thr[L].todo)
       IN heap' = [heap EXCEPT ![o] = Rearmed(heap[o], now)]
    /\ thr' = [thr EXCEPT ![L].pc = "save"]
    /\ UNCHANGED <<now, tasks, file, running, scheduler_thread,
                   task_executor, caller, calls, ops>>

\* line 234, save_tasks on the loop thread, line 239
LoopSave(L) ==
    /\ thr[L].pc = "save"
    /\ thr' = [thr EXCEPT ![L].pc = "write",
                          ![L].data = tasks_data(heap, tasks)]
    /\ UNCHANGED <<now, heap, tasks, file, running, scheduler_thread,
                   task_executor, caller, calls, ops>>

\* save_tasks on the loop thread, lines 240-241; then the next task
LoopWrite(L) ==
    /\ thr[L].pc = "write"
    /\ \E out \in WriteOutcomes(ops) :
        /\ file' = FileAfter(file, thr[L].data, out)
        /\ ops' = [ops EXCEPT !.fail = IF out = "ok" THEN @ ELSE @ - 1]
    /\ LET th == [thr EXCEPT ![L] = NextTask(thr[L])]
       IN /\ thr' = th
          /\ heap' = Collect(heap, tasks, th)
          /\ calls' = CollectCalls(calls, tasks, th)
    /\ UNCHANGED <<now, tasks, running, scheduler_thread, task_executor,
                   caller>>

\* line 183: time.sleep(10) is over
Wake(L) ==
    /\ thr[L].pc = "sleep"
    /\ thr' = [thr EXCEPT ![L].pc = "test"]
    /\ UNCHANGED <<now, heap, tasks, file, running, scheduler_thread,
                   task_executor, caller, calls, ops>>

Return(L) == ReturnWith(L, Outcomes)

Loop(L) ==
    \/ LoopTest(L) \/ Check(L) \/ ExecuteTask(L) \/ Return(L)
    \/ Rearm(L) \/ LoopSave(L) \/ LoopWrite(L) \/ Wake(L)

Next ==
    \/ Tick
    \/ SetTaskExecutor \/ AddTask \/ RemoveTask \/ CallerSave \/ CallerWrite
    \/ Start \/ Stop \/ JoinReturn \/ CallerReturn
    \/ \E L \in Threads : Loop(L)

Spec == Init /\ [][Next]_vars

\* ------------------------------------------------------------ progress
\* A loop thread that can take a step of its own takes it: the interpreter
\* schedules every thread and time.sleep(10) ends.  The executor is not
\* part of this: a call may never return.
LoopProgress(L) ==
    \/ LoopTest(L) \/ Check(L) \/ ExecuteTask(L)
    \/ Rearm(L) \/ LoopSave(L) \/ LoopWrite(L) \/ Wake(L)

\* One run: a task is added, a removal is asked for, the scheduler is
\* started once; stop() at will
InitLive ==
    /\ Constructed
    /\ ops = [add |-> 1, remove |-> MaxRemoves, start |-> 1, boot |-> 0,
              fail |-> 0]

\* The caller thread runs too, so the 5 seconds of join(timeout=5) end
SpecLive ==
    /\ InitLive /\ [][Next]_vars
    /\ WF_vars(JoinReturn)
    /\ \A L \in Threads : WF_vars(LoopProgress(L))

\* ------------------------------------------------ reads of the store
\* get_task(task_id) and get_all_tasks() are called, lines 152-158
GetTask ==
    /\ caller.pc = "idle"
    /\ \E id \in TaskIds :
         caller' = [IdleCaller EXCEPT !.pc = "get", !.op = "get_task",
                                     !.arg = id]
    /\ UNCHANGED <<now, heap, tasks, file, running, scheduler_thread,
                   task_executor, thr, calls, ops>>

GetAllTasks ==
    /\ caller.pc = "idle"
    /\ caller' = [IdleCaller EXCEPT !.pc = "get", !.op = "get_all_tasks"]
    /\ UNCHANGED <<now, heap, tasks, file, running, scheduler_thread,
                   task_executor, thr, calls, ops>>

\* They return: ret is the status the caller reads of the task it got (or
\* None), or a list
GetReturn ==
    /\ caller.pc = "get"
    /\ caller' = [caller EXCEPT !.pc = "ret", !.ret =
          IF caller.op = "get_all_tasks" THEN "list"
          ELSE IF get_task(caller.arg) = None THEN "None"
          ELSE heap[get_task(caller.arg)].status]
    /\ UNCHANGED <<now, heap, tasks, file, running, scheduler_thread,
                   task_executor, thr, calls, ops>>

\* A caller thread inside a call of the scheduler that can take a step
\* takes it: the interpreter schedules it beside the loop thread
CallerProgress == CallerSave \/ CallerWrite \/ GetReturn

NextCalls == Next \/ GetTask \/ GetAllTasks \/ GetReturn

\* One run as in SpecLive, with reads of the store
SpecCalls ==
    /\ InitLive /\ [][NextCalls]_vars
    /\ WF_vars(JoinReturn)
    /\ \A L \in Threads : WF_vars(LoopProgress(L))
    /\ WF_vars(CallerProgress)

\* ------------------------------------------------ writes that can fail
\* One run as in InitLive, in which up to MaxFails writes of the file fail
InitIO ==
    /\ Constructed
    /\ ops = [add |-> 1, remove |-> MaxRemoves, start |-> 1, boot |-> 0,
              fail |-> MaxFails]

SpecIO == InitIO /\ [][Next]_vars

\* ------------------------------------------- save_tasks, then load_tasks
\* A new process constructs a TaskScheduler on the file, lines 107-113:
\* the threads of the old process are gone
Restart ==
    /\ caller.pc = "idle"
    /\ ops.boot > 0
    /\ ops' = [ops EXCEPT !.boot = @ - 1]
    /\ heap' = load_tasks(file)[1]
    /\ tasks' = load_tasks(file)[2]
    /\ running' = FALSE
    /\ scheduler_thread' = "None"
    /\ task_executor' = FALSE
    /\ thr' = [L \in Threads |-> DeadThread]
    /\ caller' = IdleCaller
    /\ calls' = [o \in Oids |-> 0]
    /\ UNCHANGED <<now, file>>

\* The tasks a store may hold: every status, last_run and next_run present
\* or absent, every kind
AnyTasks ==
    {[NewTask(id, ty, "a.txt", d, st, rm[1], rm[2])
        EXCEPT !.status = stat, !.last_run = lr, !.next_run = nr,
               !.error_message = e] :
        id \in {"t1"}, ty \in TaskTypeNames, d \in {"", "/a.txt"},
        st \in Times, rm \in BOOLEAN \X {0, 1}, stat \in TaskStatusNames,
        lr \in {None} \cup Times, nr \in {None} \cup Times,
        e \in {"", "boom"}}

\* The tasks of a store of two: every status, last_run and next_run present
\* or absent
PairTasks(id) ==
    {[NewTask(id, "DELETE", "b.txt", "", 1, TRUE, 1)
        EXCEPT !.status = stat, !.last_run = lr, !.next_run = nr] :
        stat \in TaskStatusNames, lr \in {None, 0}, nr \in {None, 1}}

\* The stores to save: empty, one task of any kind, two tasks
Stores ==
    {<<>>} \cup {<<a>> : a \in AnyTasks}
           \cup {<<a, b>> : a \in PairTasks("t1"), b \in PairTasks("t2")}

\* A scheduler holds some tasks and is about to save them (line 132 or 147)
InitRT ==
    /\ now = 0
    /\ \E st \in Stores :
         /\ tasks = [i \in 1..Len(st) |-> i]
         /\ heap = [o \in Oids |-> IF o <= Len(st) THEN st[o] ELSE FreeObj]
    /\ file = Absent
    /\ running = FALSE
    /\ scheduler_thread = "None"
    /\ task_executor = FALSE
    /\ thr = [L \in Threads |-> DeadThread]
    /\ caller = [IdleCaller EXCEPT !.pc = "save",
                    !.op = IF tasks = <<>> THEN "remove" ELSE "add",
                    !.arg = IF tasks = <<>> THEN "t1"
                            ELSE heap[tasks[Len(tasks)]].task_id]
    /\ calls = [o \in Oids |-> 0]
    /\ ops = [add |-> 0, remove |-> 0, start |-> 0, boot |-> 1, fail |-> 0]

NextRT == CallerSave \/ CallerWrite \/ CallerReturn \/ Restart

SpecRT == InitRT /\ [][NextRT]_vars

\* ------------------------------------------------ load_tasks on any file
\* Records a tasks file may hold beside those to_dict wrote: one without
\* its task_type key, one whose task_type no TaskType has
BadRecords(id) ==
    {[task_id |-> id, source_path |-> "b.txt"],
     [to_dict(NewTask(id, "DELETE", "b.txt", "", 1, TRUE, 1))
        EXCEPT !.task_type = "move"]}

FileRecords(id) == {to_dict(t) : t \in PairTasks(id)} \cup BadRecords(id)

\* The files a scheduler may find: none, one that is not JSON, and lists of
\* up to two records
Files ==
    {Absent, Torn}
      \cup {Written(<<>>)}
      \cup {Written(<<a>>) : a \in FileRecords("t1")}
      \cup {Written(<<a, b>>) : a \in FileRecords("t1"),
                                b \in FileRecords("t1") \cup FileRecords("t2")}

\* A scheduler with nothing in it ends, and leaves such a file
InitLoad ==
    /\ now = 0
    /\ file \in Files
    /\ heap = [o \in Oids |-> FreeObj]
    /\ tasks = <<>>
    /\ running = FALSE
    /\ scheduler_thread = "None"
    /\ task_executor = FALSE
    /\ thr = [L \in Threads |-> DeadThread]
    /\ caller = IdleCaller
    /\ calls = [o \in Oids |-> 0]
    /\ ops = [add |-> 0, remove |-> 0, start |-> 0, boot |-> 1, fail |-> 0]

\* TaskScheduler(...) is called on the file
NextLoad == Restart

SpecLoad == InitLoad /\ [][NextLoad]_vars

\* --------------------------------------------- one loop, every kind of task
\* Every (recurring, interval_minutes) a caller can pass: the console asks
\* for the interval of a recurring task and takes 0 (console.py line 270)
AnyKinds == Kinds \cup {<<TRUE, 0>>}

\* What an executor can do: also raise an exception whose str(e) is empty
AnyOutcomes == Outcomes \cup {<<"raise", "">>}

\* The tasks an earlier process left in the tasks file: added and not yet
\* run, or saved while RUNNING, or CANCELLED, or without a next_run
LoopTasks(id) ==
    {[NewTask(id, "UPLOAD", "a.txt", "/a.txt", st, k[1], k[2])
        EXCEPT !.status = v[1],
               !.next_run = IF v[2] THEN st ELSE None] :
        st \in Times, k \in AnyKinds,
        v \in {<<"PENDING", TRUE>>, <<"PENDING", FALSE>>,
               <<"RUNNING", TRUE>>, <<"CANCELLED", TRUE>>}}

\* A second task, added and due
DueTasks(id) ==
    {NewTask(id, "DELETE", "b.txt", "", 0, k[1], k[2]) : k \in AnyKinds}

LoopStores ==
    {<<a>> : a \in LoopTasks("t1")}
        \cup {<<a, b>> : a \in LoopTasks("t1"), b \in DueTasks("t2")}

\* TaskScheduler.__init__ on such a file, lines 107-113; then one start()
InitLoop ==
    /\ now = 0
    /\ \E st \in LoopStores :
         file = Written([i \in 1..Len(st) |-> to_dict(st[i])])
    /\ heap = load_tasks(file)[1]
    /\ tasks = load_tasks(file)[2]
    /\ running = FALSE
    /\ scheduler_thread = "None"
    /\ task_executor = FALSE
    /\ thr = [L \in Threads |-> DeadThread]
    /\ caller = IdleCaller
    /\ calls = [o \in Oids |-> 0]
    /\ ops = [add |-> 0, remove |-> 0, start |-> 1, boot |-> 0, fail |-> 0]

LoopAny(L) ==
    \/ LoopTest(L) \/ Check(L) \/ ExecuteTask(L) \/ ReturnWith(L, AnyOutcomes)
    \/ Rearm(L) \/ LoopSave(L) \/ LoopWrite(L) \/ Wake(L)

NextLoop ==
    \/ Tick
    \/ SetTaskExecutor \/ Start \/ Stop \/ JoinReturn \/ CallerReturn
    \/ \E L \in Threads : LoopAny(L)

SpecLoop == InitLoop /\ [][NextLoop]_vars

\* The loop thread runs and an executor that is called returns
SpecLoopLive ==
    /\ InitLoop /\ [][NextLoop]_vars
    /\ \A L \in Threads :
         WF_vars(LoopProgress(L)) /\ WF_vars(ReturnWith(L, AnyOutcomes))

\* ------------------------------------------- add_task on a store of two
\* TaskScheduler.__init__ on a file of two due tasks, one of them
\* recurring, lines 107-113; then one add_task, one remove_task, one start()
InitAdd ==
    /\ now = 0
    /\ file = Written(<<to_dict(NewTask("t1", "UPLOAD", "a.txt", "/a.txt",
                                        0, FALSE, 0)),
                        to_dict(NewTask("t2", "DELETE", "b.txt", "",
                                        0, TRUE, 1))>>)
    /\ heap = load_tasks(file)[1]
    /\ tasks = load_tasks(file)[2]
    /\ running = FALSE
    /\ scheduler_thread = "None"
    /\ task_executor = FALSE
    /\ thr = [L \in Threads |-> DeadThread]
    /\ caller = IdleCaller
    /\ calls = [o \in Oids |-> 0]
    /\ ops = [add |-> 1, remove |-> MaxRemoves, start |-> 1, boot |-> 0,
              fail |-> 0]

SpecAdd == InitAdd /\ [][Next]_vars

\* ------------------------------------------------ two loop threads, two tasks
\* TaskScheduler.__init__ on a file of one due task and set_task_executor;
\* then one add_task and start(), stop(), start()
InitTwo ==
    /\ now = 0
    /\ file = Written(<<to_dict(NewTask("t1", "UPLOAD", "a.txt", "/a.txt",
                                        0, FALSE, 0))>>)
    /\ heap = load_tasks(file)[1]
    /\ tasks = load_tasks(file)[2]
    /\ running = FALSE
    /\ scheduler_thread = "None"
    /\ task_executor = TRUE
    /\ thr = [L \in Threads |-> DeadThread]
    /\ caller = IdleCaller
    /\ calls = [o \in Oids |-> 0]
    /\ ops = [add |-> 1, remove |-> 0, start |-> MaxStarts, boot |-> 0,
              fail |-> 0]

NextTwo ==
    \/ AddTask \/ CallerSave \/ CallerWrite
    \/ Start \/ Stop \/ JoinReturn \/ CallerReturn
    \/ \E L \in Threads : Loop(L)

SpecTwo == InitTwo /\ [][NextTwo]_vars

\* ------------------------------------------------ the process is killed
\* The lists that a save_tasks in progress is writing, lines 240-241
WriterData ==
    {caller.data : x \in {y \in {1} : caller.pc = "write"}}
        \cup {thr[L].data : L \in {K \in Threads : thr[K].pc = "write"}}

\* The file a kill leaves: as it was, or what open(..., 'w') and a part of
\* json.dump made of it, or the whole list
CrashFiles ==
    {file} \cup UNION {{Torn, Written(d)} : d \in WriterData}

\* The process ends at any point and a new one constructs a TaskScheduler
\* on the file, lines 107-113
Crash ==
    /\ ops.boot > 0
    /\ ops' = [ops EXCEPT !.boot = @ - 1]
    /\ \E f \in CrashFiles :
        /\ file' = f
        /\ heap' = load_tasks(f)[1]
        /\ tasks' = load_tasks(f)[2]
    /\ running' = FALSE
    /\ scheduler_thread' = "None"
    /\ task_executor' = FALSE
    /\ thr' = [L \in Threads |-> DeadThread]
    /\ caller' = IdleCaller
    /\ calls' = [o \in Oids |-> 0]
    /\ UNCHANGED now

\* One run as in InitLive, killed once
InitCrash ==
    /\ Constructed
    /\ ops = [add |-> 1, remove |-> MaxRemoves, start |-> 1, boot |-> 1,
              fail |-> 0]

NextCrash == Next \/ Crash

SpecCrash == InitCrash /\ [][NextCrash]_vars

\* ------------------------------------------------------- the front-ends
\* int(s) of the strings a user types; any other string raises ValueError
IntOf == [s \in {"0", "1", "5", "60"} |->
            IF s = "0" THEN 0 ELSE IF s = "1" THEN 1
            ELSE IF s = "5" THEN 5 ELSE 60]
IsInt(s) == s \in DOMAIN IntOf

\* x or d, for strings
OrElse(x, d) == IF x = "" THEN d ELSE x

\* What the user answers to the prompts of the console's schedule_task
ConsoleInputs ==
    [choice : {"1", "2", "3", "4"}, source : {"", "a.txt"},
     dest : {"", "/a.txt"}, delay : {"", "0"}, recurring : {"yes", "no"},
     interval : {"", "0", "1", "x"}]

task_type_map == [c \in {"1", "2", "3"} |->
    IF c = "1" THEN "UPLOAD" ELSE IF c = "2" THEN "DOWNLOAD" ELSE "DELETE"]

\* console.py schedule_task, lines 249-283: the task handed to add_task,
\* or no task (an invalid task type; a ValueError of int())
schedule_task(inp, id, t) ==
    IF inp.choice \notin DOMAIN task_type_map THEN [kind |-> "invalid"]
    ELSE IF inp.recurring = "yes" /\ ~IsInt(OrElse(inp.interval, "60"))
    THEN [kind |-> "raise"]
    ELSE [kind |-> "task", task |->
            NewTask(id, task_type_map[inp.choice], inp.source,
                    IF task_type_map[inp.choice] \in {"UPLOAD", "DOWNLOAD"}
                    THEN inp.dest ELSE "",
                    t + IntOf[OrElse(inp.delay, "5")],
                    inp.recurring = "yes",
                    IF inp.recurring = "yes"
                    THEN IntOf[OrElse(inp.interval, "60")] ELSE 0)]

\* What the widgets of the GUI's task form hold
GuiInputs ==
    [task_type_var : {"upload", "download", "delete"},
     source : {"", "a.txt"}, dest : {"", "/a.txt"}, delay : {"0", "x"},
     recurring_var : BOOLEAN, interval : {"0", "1", "x"}]

\* gui.py add_scheduled_task, lines 437-459: the task handed to add_task,
\* or no task (a ValueError of int(), caught at line 470; no source path)
add_scheduled_task(inp, id, t) ==
    IF ~IsInt(inp.delay) \/ (inp.recurring_var /\ ~IsInt(inp.interval))
    THEN [kind |-> "raise"]
    ELSE IF inp.source = "" THEN [kind |-> "invalid"]
    ELSE [kind |-> "task", task |->
            NewTask(id, EnumByValue(TaskType, inp.task_type_var), inp.source,
                    inp.dest, t + IntOf[inp.delay], inp.recurring_var,
                    IF inp.recurring_var THEN IntOf[inp.interval] ELSE 0)]

\* str(uuid.uuid4()): an id that no task has
FreshIds ==
    IF ~HasKey(heap, tasks, "t1") THEN {"t1"}
    ELSE IF ~HasKey(heap, tasks, "t2") THEN {"t2"} ELSE {}

\* A front-end handler is called: with a task it calls add_task (line 131,
\* then save_tasks), without one it returns
FrontEnd(results) ==
    /\ caller.pc = "idle"
    /\ ops.add > 0
    /\ ops' = [ops EXCEPT !.add = @ - 1]
    /\ \E r \in results, o \in Oids :
        /\ o \notin Referenced(tasks, thr)
        /\ \A x \in Oids \ Referenced(tasks, thr) : o <= x
        /\ LET h == IF r.kind = "task" THEN [heap EXCEPT ![o] = r.task]
                    ELSE heap
               tk == IF r.kind = "task" THEN DictSet(h, tasks, o) ELSE tasks
           IN /\ tasks' = tk
              /\ heap' = Collect(h, tk, thr)
              /\ calls' = CollectCalls(calls, tk, thr)
        /\ caller' = IF r.kind = "task"
                     THEN [IdleCaller EXCEPT !.pc = "save", !.op = "add",
                                             !.arg = r.task.task_id]
                     ELSE [IdleCaller EXCEPT !.pc = "ret", !.op = r.kind]
    /\ UNCHANGED <<now, file, running, scheduler_thread, task_executor, thr>>

ConsoleScheduleTask ==
    FrontEnd({schedule_task(inp, id, now) :
                 inp \in ConsoleInputs, id \in FreshIds})

GuiAddScheduledTask ==
    FrontEnd({add_scheduled_task(inp, id, now) :
                 inp \in GuiInputs, id \in FreshIds})

\* A scheduler with no tasks file; the front-end handlers are called
InitFront ==
    /\ Constructed
    /\ ops = [add |-> MaxAdds, remove |-> 0, start |-> 0, boot |-> 0,
              fail |-> 0]

NextFront ==
    \/ ConsoleScheduleTask \/ GuiAddScheduledTask
    \/ CallerSave \/ CallerWrite \/ CallerReturn

SpecFront == InitFront /\ [][NextFront]_vars

\* ================================================================ claims
\* The objects in use, and the task a loop thread has in hand
Live == Referenced(tasks, thr)
Cur(L) == Head(thr[L].todo)
InCycle == {"check", "exec", "call", "rearm", "save", "write"}

\* ---------------------------------------------------------------- C1
\* C1: in a scan cycle, with now sampled once at its start, the task that
\* line 192 looks at is handed to _execute_task if and only if its status is
\* PENDING and its next_run <= that now; a task of any other status is
\* passed over whatever its next_run.
C1_DueSelection ==
    [][\A L \in Threads :
        /\ (thr[L].pc = "check" /\ thr'[L] # thr[L]) =>
              ((thr'[L].pc = "exec" /\ thr'[L].todo = thr[L].todo)
                 <=> (/\ heap[Cur(L)].status = "PENDING"
                      /\ heap[Cur(L)].next_run # None
                      /\ heap[Cur(L)].next_run <= thr[L].now))
        /\ (thr[L].pc \in InCycle /\ thr'[L].pc \in InCycle) =>
              thr'[L].now = thr[L].now]_vars

\* A cycle over two tasks hands over the second, a due PENDING task, after
\* it passed over the first, which is not PENDING
C1_Witness ==
    \E L \in Threads :
        /\ thr[L].pc = "exec" /\ Len(tasks) = 2
        /\ thr[L].todo = <<tasks[2]>>
        /\ heap[tasks[1]].status = "COMPLETED"
        /\ heap[tasks[1]].next_run <= thr[L].now
        /\ heap[tasks[2]].status = "PENDING"

\* ---------------------------------------------------------------- C2
\* C2: under any interleaving of start, stop, add, remove and loop cycles,
\* a task that does not recur is invoked at most once, and when it is
\* COMPLETED its last_run is set and its error_message is empty.
C2_ExactlyOnce ==
    \A o \in Live :
        ~heap[o].recurring =>
            /\ calls[o] <= 1
            /\ heap[o].status = "COMPLETED" =>
                  heap[o].last_run # None /\ heap[o].error_message = ""

\* ---------------------------------------------------------------- C3
\* C3 as stated: a recurring task with interval_minutes = m > 0 that is
\* PENDING again after a success at time T has last_run = T and
\* next_run = T + m.
C3_NextRunIsLastRunPlusInterval ==
    \A o \in Live :
        (Rearms(heap[o]) /\ heap[o].status = "PENDING"
           /\ heap[o].last_run # None) =>
            heap[o].next_run = heap[o].last_run + heap[o].interval_minutes

\* C3 as amended: the update after a success reads the clock a second time.
\* It leaves last_run = T, the first reading, and sets status PENDING and
\* next_run = T2 + m, where T2 >= T is the clock at the update: next_run is
\* at least T + m, and more when the clock moved between the two readings.
C3_NextRunFromSecondReading ==
    [][\A L \in Threads :
        (thr[L].pc = "rearm" /\ thr'[L].pc = "save") =>
            /\ heap'[Cur(L)].status = "PENDING"
            /\ heap'[Cur(L)].last_run = heap[Cur(L)].last_run
            /\ heap'[Cur(L)].next_run = now + heap[Cur(L)].interval_minutes
            /\ heap'[Cur(L)].next_run >=
                  heap'[Cur(L)].last_run + heap[Cur(L)].interval_minutes]_vars

\* A recurring task is PENDING again after a success, in the file too
C3_Witness ==
    \E L \in Threads :
        /\ thr[L].pc = "sleep" /\ Len(tasks) = 1
        /\ Rearms(heap[tasks[1]])
        /\ heap[tasks[1]].status = "PENDING"
        /\ heap[tasks[1]].last_run = 0
        /\ heap[tasks[1]].next_run = 2
        /\ file = Written(tasks_data(heap, tasks))

\* ---------------------------------------------------------------- C4
\* C4: a task that does not recur and is COMPLETED or FAILED keeps that
\* status: no later step of the loop executes it or changes its status.
C4_TerminalStays ==
    [][\A o \in Oids :
        (/\ o \in Live /\ o \in Referenced(tasks', thr')
         /\ ~heap[o].recurring
         /\ heap[o].status \in {"COMPLETED", "FAILED"}) =>
            heap'[o].status = heap[o].status]_vars

\* ---------------------------------------------------------------- C5
\* C5: when the execution of a recurring task fails (the executor returns
\* False or raises), the update makes it FAILED and leaves its next_run as
\* it was; and the scan never hands over a task that is FAILED.
C5_FailedRecurring ==
    [][\A L \in Threads :
        /\ (/\ thr[L].pc = "call" /\ thr'[L].pc # "call"
            /\ thr'[L].res \in {"false", "raise"}
            /\ heap[Cur(L)].recurring) =>
              /\ heap'[Cur(L)].status = "FAILED"
              /\ heap'[Cur(L)].next_run = heap[Cur(L)].next_run
              /\ thr'[L].pc = "save"
        /\ (thr[L].pc = "check" /\ heap[Cur(L)].status = "FAILED") =>
              thr'[L].pc # "exec"]_vars

\* A recurring task has failed, is FAILED in the file as well, is due, and a
\* later cycle has looked at it and gone to sleep
C5_Witness ==
    \E L \in Threads :
        /\ thr[L].pc = "sleep" /\ Len(tasks) = 1 /\ thr[L].now = 1
        /\ heap[tasks[1]].recurring
        /\ heap[tasks[1]].status = "FAILED"
        /\ heap[tasks[1]].next_run = 0
        /\ calls[tasks[1]] = 1
        /\ file = Written(tasks_data(heap, tasks))

\* ---------------------------------------------------------------- C6
\* C6: after a recurring task with interval_minutes = m > 0 succeeded at
\* time T (its last_run), the executor is not invoked for it in a cycle
\* that started before T + m.
C6_NotBeforeInterval ==
    \A L \in Threads :
        (/\ thr[L].pc = "call" /\ Rearms(heap[Cur(L)])
         /\ heap[Cur(L)].last_run # None) =>
            thr[L].now >= heap[Cur(L)].last_run + heap[Cur(L)].interval_minutes

\* ---------------------------------------------------------------- C7
\* C7: a task added while a scan is in progress is never lost: once
\* add_task has returned and no thread is inside a cycle, every task_id of
\* self.tasks has its record in the tasks file.
Quiet ==
    /\ caller.pc \in {"idle", "ret"}
    /\ \A L \in Threads : thr[L].pc \notin InCycle

FileIds == {file.data[i].task_id : i \in 1..Len(file.data)}

C7_AddedTaskPersisted ==
    Quiet => \A id \in TaskIds : HasKey(heap, tasks, id) => id \in FileIds

\* ---------------------------------------------------------------- C8
\* C8: save_tasks followed by load_tasks in a new scheduler on the same
\* file gives a store with the same ids and, per id, a task equal in every
\* field (task_type, source_path, dest_path, scheduled_time, recurring,
\* interval_minutes, status, last_run, next_run, error_message).
C8_RoundTrip ==
    [][(ops'.boot < ops.boot
         /\ file = Written(tasks_data(heap, tasks))) =>
        \A id \in TaskIds :
            /\ HasKey(heap', tasks', id) <=> HasKey(heap, tasks, id)
            /\ HasKey(heap, tasks, id) =>
                  heap'[DictGet(heap', tasks', id)] =
                    heap[DictGet(heap, tasks, id)]]_vars

\* A store of two tasks, one RUNNING without next_run, was saved and loaded
C8_Witness ==
    /\ ops.boot = 0 /\ Len(tasks) = 2 /\ Len(file.data) = 2
    /\ heap[tasks[1]].status = "RUNNING"
    /\ heap[tasks[1]].next_run = None
    /\ heap[tasks[1]].last_run = 0
    /\ heap[tasks[2]].status = "CANCELLED"

\* ---------------------------------------------------------------- C9
\* C9: remove_task(id) for an id that is no key returns False and changes
\* neither self.tasks nor the file; for an id that is a key it returns True
\* and get_task(id) is None afterwards.
C9_RemoveTask ==
    [][/\ (caller.pc = "idle" /\ caller'.op = "remove") =>
            IF HasKey(heap, tasks, caller'.arg)
            THEN /\ caller'.pc = "save"
                 /\ DictGet(heap', tasks', caller'.arg) = None
            ELSE /\ caller'.pc = "ret" /\ caller'.ret = "False"
                 /\ tasks' = tasks /\ heap' = heap /\ file' = file
       /\ (caller.op = "remove" /\ caller.pc = "write"
             /\ caller'.pc = "ret") =>
            /\ caller'.ret = "True"
            /\ DictGet(heap', tasks', caller.arg) = None]_vars

\* remove_task has returned True for a task that was in the file
C9_Witness ==
    /\ caller.pc = "ret" /\ caller.op = "remove" /\ caller.ret = "True"
    /\ get_task(caller.arg) = None
    /\ file = Written(<<>>)

\* ---------------------------------------------------------------- C10
\* C10: when the executor raises, that task alone becomes FAILED, the
\* thread goes on to save and then to the rest of its list, and a loop
\* thread ends only at line 180 with self.running False.
C10_RaiseIsCaught ==
    [][\A L \in Threads :
        /\ (thr[L].pc = "call" /\ thr'[L].pc # "call"
              /\ thr'[L].res = "raise") =>
              /\ heap'[Cur(L)].status = "FAILED"
              /\ \A o \in Oids \ {Cur(L)} : heap'[o] = heap[o]
              /\ thr'[L].pc = "save" /\ thr'[L].todo = thr[L].todo
        /\ (thr[L].pc = "write" /\ thr[L].res = "raise"
              /\ thr'[L] # thr[L]) =>
              /\ thr'[L].todo = Tail(thr[L].todo)
              /\ thr'[L].pc = IF thr'[L].todo # <<>> THEN "check"
                                ELSE "sleep"
        /\ (thr[L].pc # "dead" /\ thr'[L].pc = "dead") =>
              thr[L].pc = "test" /\ ~running]_vars

\* The first task of a cycle raised and is FAILED; the thread is in the
\* executor for the second
C10_Witness ==
    \E L \in Threads :
        /\ thr[L].pc = "call" /\ Len(tasks) = 2
        /\ thr[L].todo = <<tasks[2]>>
        /\ heap[tasks[1]].status = "FAILED"
        /\ heap[tasks[1]].error_message = "boom"
        /\ heap[tasks[2]].scheduled_time = heap[tasks[1]].scheduled_time

\* ---------------------------------------------------------------- C11
\* C11: the read/modify/persist sequences on self.tasks exclude one
\* another: the caller thread is never between its change of self.tasks and
\* the end of its save_tasks while a loop thread is between the status
\* update of a task and the end of its save_tasks.
InCallerSequence == caller.pc \in {"save", "write"}

InLoopSequence(L) == thr[L].pc \in {"call", "rearm", "save", "write"}

C11_MutualExclusion ==
    ~(InCallerSequence /\ \E L \in Threads : InLoopSequence(L))

\* ---------------------------------------------------------------- C12
\* C12: after any sequence of start() and stop() calls at most one loop
\* thread is alive.
Alive == {L \in Threads : thr[L].pc # "dead"}

C12_OneLoopThread == Cardinality(Alive) <= 1

\* ---------------------------------------------------------------- C13
\* C13: start() while self.running is True creates no thread and changes
\* nothing; stop() while self.running is False changes nothing, at its
\* first statement and when its join returns; both return None.
SchedulerState ==
    <<heap, tasks, file, running, scheduler_thread, task_executor, thr>>

C13_NoOpStartStop ==
    [][/\ (caller.pc = "idle" /\ caller'.op = "start" /\ running) =>
            /\ UNCHANGED SchedulerState
            /\ caller'.pc = "ret" /\ caller'.ret = "None"
       /\ (caller.pc = "idle" /\ caller'.op = "stop" /\ ~running) =>
            /\ UNCHANGED SchedulerState
            /\ caller'.pc \in {"join", "ret"} /\ caller'.ret = "None"
       /\ (caller.pc = "join" /\ caller'.pc = "ret") =>
            /\ UNCHANGED SchedulerState
            /\ caller'.ret = "None"]_vars

\* start() has returned from line 164 with a loop thread running
C13_Witness ==
    /\ caller.pc = "ret" /\ caller.op = "start"
    /\ caller.log = <<"Scheduler already running">>
    /\ running /\ Cardinality(Alive) = 1

\* ---------------------------------------------------------------- C14
\* C14: with self.running False, a loop thread that is in the executor is
\* not cut off: the call ends and its outcome is put on the task, save_tasks
\* builds its list from self.tasks and writes it, the thread goes on only
\* within its cycle, a thread ends nowhere but at line 180, and at line 180
\* it ends instead of beginning a cycle.
C14_StopLetsTaskFinish ==
    [][~running =>
        \A L \in Threads :
          /\ (thr[L].pc = "call" /\ thr'[L] # thr[L]) =>
                /\ \E res \in Outcomes :
                      heap'[Cur(L)] = Outcome(heap[Cur(L)], res, now)
                /\ thr'[L].pc \in {"rearm", "save"}
          /\ (thr[L].pc = "save" /\ thr'[L] # thr[L]) =>
                /\ thr'[L].pc = "write"
                /\ thr'[L].data = tasks_data(heap, tasks)
          /\ (thr[L].pc = "write" /\ thr'[L] # thr[L] /\ ops' = ops) =>
                file' = Written(thr[L].data)
          /\ (thr[L].pc = "sleep" /\ thr'[L] # thr[L]) =>
                thr'[L].pc = "test"
          /\ (thr[L].pc = "test" /\ thr'[L] # thr[L] /\ ~running') =>
                thr'[L].pc = "dead"
          /\ (thr[L].pc # "dead" /\ thr'[L].pc = "dead") =>
                thr[L].pc = "test"]_vars

\* stop() has returned on its timeout while the one loop thread was in the
\* executor; the call has ended since, the task is COMPLETED and the thread
\* is about to write the file
C14_Witness ==
    /\ caller.pc = "ret" /\ caller.op = "stop" /\ ~running
    /\ Cardinality(Alive) = 1
    /\ \E L \in Alive :
        /\ thr[L].pc = "write" /\ thr[L].res = "true"
        /\ heap[Cur(L)].status = "COMPLETED"
        /\ thr[L].data = tasks_data(heap, tasks)
        /\ HasKey(heap, tasks, heap[Cur(L)].task_id)

\* ---------------------------------------------------------------- C15
\* C15: stop() always returns: a caller inside join(timeout=5) gets out of
\* it, also when the loop thread stays in the executor for ever; and the
\* return of join leaves the loop threads as they are (none is ended).
C15_StopReturns ==
    /\ (caller.pc = "join") ~> (caller.pc = "ret" /\ caller.op = "stop")
    /\ [][(caller.pc = "join" /\ caller'.pc # "join") =>
            /\ thr' = thr
            /\ caller'.pc = "ret" /\ caller'.ret = "None"]_vars

\* stop() has returned while the loop thread is in the executor and RUNNING
\* is the status of its task
C15_Witness ==
    /\ caller.pc = "ret" /\ caller.op = "stop" /\ ~running
    /\ \E L \in Threads :
        /\ thr[L].pc = "call" /\ L = scheduler_thread
        /\ heap[Cur(L)].status = "RUNNING"

\* ---------------------------------------------------------------- C16
\* C16: when remove_task has taken a task out of self.tasks and returned
\* while a loop thread was in _execute_task for it, the end of that
\* _execute_task (the write of save_tasks) leaves the task_id out of
\* self.tasks and out of the file.
C16_RemovedStaysRemoved ==
    [][\A L \in Threads :
        (/\ thr[L].pc = "write" /\ thr'[L] # thr[L]
         /\ ~InCallerSequence
         /\ ~HasKey(heap, tasks, heap[Cur(L)].task_id)) =>
            /\ ~HasKey(heap', tasks', heap[Cur(L)].task_id)
            /\ heap[Cur(L)].task_id \notin FileIds']_vars

\* ---------------------------------------------------------------- C17
\* C17: TaskScheduler(...) on a file that is missing, is not JSON or holds a
\* record that from_dict rejects (also after records it accepts) gives an
\* empty self.tasks.
Malformed(f) ==
    \/ ~f.exists \/ ~f.json
    \/ \E i \in 1..Len(f.data) : from_dict_raises(f.data[i])

C17_BadFileEmptyStore ==
    [][(ops'.boot < ops.boot /\ Malformed(file)) => tasks' = <<>>]_vars

\* ---------------------------------------------------------------- C18
\* C18: a write of the tasks file that fails, in add_task, remove_task or
\* after an execution, is not tried again and changes nothing in memory:
\* the added task is in self.tasks, the removed one is not, the task in hand
\* keeps its new status; and every save builds its list from self.tasks as
\* it is then, and writes it when the write goes through.
FailedWrite == ops'.fail < ops.fail

C18_FailedSaveKeepsMemory ==
    [][/\ (caller.pc = "write" /\ caller' # caller /\ FailedWrite) =>
            /\ tasks' = tasks /\ heap' = heap
            /\ caller'.pc = "ret"
            /\ caller.op = "add" => HasKey(heap', tasks', caller.arg)
            /\ caller.op = "remove" => ~HasKey(heap', tasks', caller.arg)
       /\ (caller.pc = "save" /\ caller' # caller) =>
            caller'.data = tasks_data(heap, tasks)
       /\ (caller.pc = "write" /\ caller' # caller /\ ~FailedWrite) =>
            file' = Written(caller.data)
       /\ \A L \in Threads :
            /\ (thr[L].pc = "write" /\ thr'[L] # thr[L] /\ FailedWrite) =>
                  /\ tasks' = tasks
                  /\ \A o \in Referenced(tasks', thr') : heap'[o] = heap[o]
                  /\ thr'[L].pc \in {"check", "sleep"}
            /\ (thr[L].pc = "save" /\ thr'[L] # thr[L]) =>
                  thr'[L].data = tasks_data(heap, tasks)
            /\ (thr[L].pc = "write" /\ thr'[L] # thr[L]
                  /\ ~FailedWrite) =>
                  file' = Written(thr[L].data)]_vars

\* The write of add_task failed; the task stayed in self.tasks, was
\* executed, and the save after the execution wrote self.tasks as it is
C18_Witness ==
    /\ caller.pc = "ret" /\ caller.op = "add"
    /\ caller.log = <<"Failed to save tasks", "Added task">>
    /\ HasKey(heap, tasks, caller.arg)
    /\ heap[DictGet(heap, tasks, caller.arg)].status = "COMPLETED"
    /\ file = Written(tasks_data(heap, tasks))

\* ---------------------------------------------------------------- C19
\* C19: when the write of the tasks file fails inside add_task or
\* remove_task, the call does not return as if nothing happened: it returns
\* neither None nor True.
C19_SaveFailureReported ==
    (/\ caller.pc = "ret" /\ caller.op \in {"add", "remove"}
     /\ caller.log # <<>>
     /\ Head(caller.log) = "Failed to save tasks") =>
        caller.ret \notin {"None", "True"}

\* ---------------------------------------------------------------- C20
\* C20: outside start() and stop(), self.running is True exactly when a
\* loop thread is alive, and while it is False no loop thread scans or
\* executes.
C20_RunningAgrees ==
    caller.pc # "join" =>
        /\ running <=> Alive # {}
        /\ ~running => \A L \in Threads : thr[L].pc \notin InCycle

\* ---------------------------------------------------------------- C21
\* C21: while no executor is registered, _execute_task (lines 202-204)
\* returns at once: the step leaves every stored task as it was, enters no
\* executor, and the thread goes on to the next task of its list or to its
\* sleep, so no task is RUNNING, FAILED or COMPLETED and none has a last_run
\* or an error_message; with an executor registered the same step sets the
\* task RUNNING and calls the executor.
C21_NoExecutorNoExecution ==
    [][/\ ~task_executor =>
              \A o \in SeqToSet(tasks) :
                 /\ heap[o].status = "PENDING" /\ heap[o].last_run = None
                 /\ heap[o].error_message = "" /\ calls[o] = 0
       /\ \A L \in Threads :
            (thr[L].pc = "exec" /\ thr'[L] # thr[L]) =>
               IF task_executor
               THEN /\ thr'[L].pc = "call"
                    /\ thr'[L].todo = thr[L].todo
                    /\ Cur(L) \in SeqToSet(tasks) =>
                          heap'[Cur(L)].status = "RUNNING"
               ELSE /\ thr'[L] = NextTask(thr[L])
                    /\ thr'[L].pc \in {"check", "sleep"}
                    /\ \A o \in SeqToSet(tasks) : heap'[o] = heap[o]
                    /\ \A o \in SeqToSet(tasks) : calls'[o] = 0]_vars

\* Without an executor a cycle over two due PENDING tasks has let the first
\* go and looks at the second
C21_Witness ==
    \E L \in Threads :
        /\ ~task_executor /\ Len(tasks) = 2
        /\ thr[L].pc = "exec" /\ thr[L].todo = <<tasks[2]>>
        /\ \A i \in 1..2 :
              /\ heap[tasks[i]].status = "PENDING"
              /\ heap[tasks[i]].next_run <= thr[L].now

\* ---------------------------------------------------------------- C22
\* The step in which the executor's call ends in a failure, and the detail
\* the failure came with: str(e) of the exception, nothing for a False
FailedReturn(L) ==
    thr[L].pc = "call" /\ thr'[L].pc # "call"
        /\ thr'[L].res \in {"false", "raise"}
Details(kind) == {res[2] : res \in {r \in AnyOutcomes : r[1] = kind}}

C23_FailedHasMessage ==
    \A o \in SeqToSet(tasks) :
        heap[o].status = "FAILED" => heap[o].error_message # ""

\* ---------------------------------------------------------------- C24
\* C24: a task never attempted has no last_run, and when an attempt ends,
\* in success or in failure, last_run is the time at which it ended.
C24_LastRunAfterAttempt ==
    [][/\ \A o \in SeqToSet(tasks) : calls[o] = 0 => heap[o].last_run = None
       /\ \A L \in Threads :
            (thr[L].pc = "call" /\ thr'[L].pc # "call") =>
                heap'[Cur(L)].last_run = now]_vars

\* ---------------------------------------------------------------- C25
\* C25: a task with recurring = True never ends COMPLETED, whatever its
\* interval_minutes (0 included): it is COMPLETED only between lines 214
\* and 220 of the run that makes it PENDING again.
C25_RecurringNeverCompleted ==
    \A o \in SeqToSet(tasks) :
        (heap[o].recurring /\ heap[o].status = "COMPLETED") =>
            \E L \in Threads : thr[L].pc = "rearm" /\ Cur(L) = o

\* ---------------------------------------------------------------- C26
\* C26: get_task, get_all_tasks, add_task and remove_task called from a
\* caller thread return, also when a loop thread stays for ever inside an
\* executor call (no step of the caller waits for a loop thread); a loop
\* thread inside the call does nothing else until the call ends.
C26_CallersNotBlocked ==
    /\ (caller.pc \in {"save", "write", "get"}) ~> (caller.pc = "ret")
    /\ [][\A L \in Threads :
            (thr[L].pc = "call" /\ thr'[L].pc = "call") =>
                thr'[L] = thr[L]]_vars

\* get_task has returned a task it read as RUNNING: it ran while the loop
\* thread was inside the executor, and the thread is still there
C26_Witness ==
    /\ caller.pc = "ret" /\ caller.op = "get_task"
    /\ caller.ret = "RUNNING"
    /\ \E L \in Threads : thr[L].pc = "call"

\* ---------------------------------------------------------------- C27
\* C27: self.tasks holds at most one task per task_id; add_task with a
\* task_id that is a key puts the new task in the place of the stored one
\* and leaves the other tasks as they are, add_task with a new task_id adds
\* the task at the end; adding a task equal to the stored one leaves the
\* store as it was.
C27_OneTaskPerId ==
    [][/\ \A i, j \in 1..Len(tasks) :
            heap[tasks[i]].task_id = heap[tasks[j]].task_id => i = j
       /\ (caller.pc = "idle" /\ caller'.pc = "save" /\ caller'.op = "add")
            => LET id == caller'.arg
                   i == KeyIndex(heap, tasks, id)
                   new == DictGet(heap', tasks', id)
               IN /\ HasKey(heap', tasks', id)
                  /\ heap'[new] \in NewTasks
                  /\ calls'[new] = 0
                  /\ Len(tasks') = IF i = 0 THEN Len(tasks) + 1
                                   ELSE Len(tasks)
                  /\ KeyIndex(heap', tasks', id) =
                        IF i = 0 THEN Len(tasks) + 1 ELSE i
                  /\ \A k \in 1..Len(tasks) :
                        k # i => /\ tasks'[k] = tasks[k]
                                 /\ heap'[tasks'[k]] = heap[tasks[k]]
                  /\ (i # 0 /\ heap'[new] = heap[tasks[i]]) =>
                        tasks_data(heap', tasks') = tasks_data(heap, tasks)
      ]_vars

\* add_task has put a new task in the place of the first of two: the task
\* of that id had run and is PENDING again, the other is as it was
C27_Witness ==
    /\ caller.pc = "save" /\ caller.op = "add" /\ caller.arg = "t1"
    /\ Len(tasks) = 2
    /\ heap[tasks[1]].task_id = "t1" /\ heap[tasks[1]].status = "PENDING"
    /\ heap[tasks[1]].recurring
    /\ heap[tasks[2]].task_id = "t2" /\ heap[tasks[2]].last_run # None
    /\ file.data[1].status = "completed"

\* ---------------------------------------------------------------- C28
\* C28: once every operation in progress has finished (no caller is inside
\* a call, no loop thread inside a cycle) and no save failed, the tasks
\* file that was written holds exactly the tasks of self.tasks with their
\* field values: no write of an older snapshot comes after a newer one.
C28_FileEqualsStore ==
    (Quiet /\ file.exists) => file = Written(tasks_data(heap, tasks))

\* ---------------------------------------------------------------- C29
\* C29: due tasks are executed one after another: at most one call of the
\* executor is in progress at any time, and while a cycle has tasks left
\* to look at or to finish no other scan of the store has begun.
C29_OneInvocationAtATime ==
    /\ Cardinality({L \in Threads : thr[L].pc = "call"}) <= 1
    /\ Cardinality({L \in Threads : thr[L].pc \in InCycle}) <= 1

\* ---------------------------------------------------------------- C30
\* C30: no record of the tasks file has the status running, whatever the
\* interleaving of the loop's execution with add_task and remove_task.
C30_RunningNeverPersisted ==
    \A i \in 1..Len(file.data) : file.data[i].status # "running"

\* ---------------------------------------------------------------- C31
\* The step of a scan in which line 192 raises: the task is PENDING and has
\* no next_run
ScanRaises(L) ==
    thr[L].pc = "check" /\ thr'[L] # thr[L] /\ DueRaises(heap[Cur(L)])

\* C31: an exception raised in a cycle's scan (the comparison of a task
\* loaded without next_run) is caught by the loop at line 184: the rest of
\* the cycle is skipped, no task changes, and the thread goes on to the
\* test of the next cycle; it does not end.
C31_ScanErrorCaught ==
    [][\A L \in Threads :
         ScanRaises(L) =>
            /\ thr'[L].pc = "test" /\ thr'[L].todo = <<>>
            /\ heap' = heap /\ tasks' = tasks /\ file' = file
            /\ calls' = calls]_vars

\* A cycle begun at time 1 has ended on the first task, which has no
\* next_run; the second task, due and PENDING, was not looked at
C31_Witness ==
    \E L \in Threads :
        /\ thr[L].pc = "test" /\ thr[L].now = 1 /\ running
        /\ task_executor /\ Len(tasks) = 2
        /\ DueRaises(heap[tasks[1]])
        /\ Due(heap[tasks[2]], 1) /\ calls[tasks[2]] = 0

\* ---------------------------------------------------------------- C32
\* C32: while the scheduler is running with an executor that always
\* returns, a task that is PENDING with next_run in the past is eventually
\* handed to the executor, whatever the other tasks of the store are (one
\* whose scan raises included).
C32_DueIsExecuted ==
    \A i \in 1..MaxObjs :
        (/\ running /\ task_executor /\ i <= Len(tasks)
         /\ heap[tasks[i]].status = "PENDING"
         /\ heap[tasks[i]].next_run # None
         /\ heap[tasks[i]].next_run <= now
         /\ calls[tasks[i]] = 0)
            ~> (~running \/ i > Len(tasks) \/ calls[tasks[i]] > 0)

\* ---------------------------------------------------------------- C33
\* C33: when stop() is called while the loop thread is in time.sleep(10)
\* with no task in flight, the sleep is cut short: at the return of stop()
\* (the return of join(timeout=5)) that thread has ended.
C33_SleepCutShort ==
    [][(/\ caller.pc = "join" /\ caller'.pc = "ret"
        /\ \A L \in Threads : thr[L].pc # "call")
          => thr'[scheduler_thread].pc = "dead"]_vars

\* ---------------------------------------------------------------- C34
\* The task_ids of self.tasks, in order
StoreIds == [i \in 1..Len(tasks) |-> heap[tasks[i]].task_id]

\* C34: no step of a loop thread adds or deletes an entry of self.tasks,
\* and a COMPLETED or FAILED task that is in self.tasks and in the tasks
\* file stays in both with every step that is not a remove_task.
C34_LoopKeepsIds ==
    [][/\ (caller' = caller /\ thr' # thr) => StoreIds' = StoreIds
       /\ \A id \in TaskIds :
            (/\ HasKey(heap, tasks, id) /\ id \in FileIds
             /\ heap[get_task(id)].status \in {"COMPLETED", "FAILED"}
             /\ ~(caller.pc = "idle" /\ caller'.op = "remove"))
               => HasKey(heap', tasks', id) /\ id \in FileIds']_vars

\* ---------------------------------------------------------------- C35
\* C35: a kill of the process at any point of a save leaves the tasks file
\* whole: it holds the records it held before the save or the records the
\* save was writing, and the new process loads one of the two.
C35_SaveIsAtomic ==
    [][ops'.boot < ops.boot =>
          /\ file' \in {file} \cup {Written(d) : d \in WriterData}
          /\ file'.exists =>
                /\ file'.json
                /\ tasks_data(heap', tasks') = file'.data]_vars

\* ---------------------------------------------------------------- C38
\* C38: a task of self.tasks has status RUNNING only while a loop thread is
\* inside the executor for it, also right after load_tasks at startup.
C38_RunningOnlyInCall ==
    \A o \in SeqToSet(tasks) :
        heap[o].status = "RUNNING" =>
            \E L \in Threads : thr[L].pc = "call" /\ Cur(L) = o

\* ---------------------------------------------------------------- C36
\* C36: every task that the console or the GUI hands to add_task has
\* interval_minutes > 0 if it is recurring, a non-empty source_path, and a
\* non-empty dest_path if it is an UPLOAD or a DOWNLOAD.
C36_FrontEndsValidate ==
    \A o \in SeqToSet(tasks) :
        /\ heap[o].recurring => heap[o].interval_minutes > 0
        /\ heap[o].source_path # ""
        /\ heap[o].task_type \in {"UPLOAD", "DOWNLOAD"} =>
              heap[o].dest_path # ""

\* ---------------------------------------------------------------- C37
\* C37: after a cycle whose scan raised, the loop waits one cadence
\* interval, time.sleep(10), before it begins the next scan.
C37_SleepAfterScanError ==
    [][\A L \in Threads : ScanRaises(L) => thr'[L].pc = "sleep"]_vars

\* ---------------------------------------------------------------- C39
\* C39: when a call of the executor ends, its outcome is on the task that
\* self.tasks holds under that task_id, also when add_task has stored
\* another task under the id during the call: that task is not left
\* PENDING to be executed again.
C39_OutcomeOnStoredTask ==
    [][\A L \in Threads :
         (/\ thr[L].pc = "call" /\ thr'[L].pc # "call"
          /\ HasKey(heap, tasks, heap[Cur(L)].task_id))
            => LET stored == DictGet(heap', tasks', heap[Cur(L)].task_id)
               IN /\ heap'[stored].status \in {"COMPLETED", "FAILED"}
                  /\ heap'[stored].error_message = heap'[Cur(L)].error_message
                  /\ heap'[stored].last_run = heap'[Cur(L)].last_run]_vars

=============================================================================
